---- MODULE Spec2Model ----
(***************************************************************************)
(* The request execution pipeline of cloudflare-go-experimental:           *)
(* Client.Call -> Client.makeRequest (retry loop with exponential backoff, *)
(* rate-limit wait, HTTP send, classification, response decoding) and      *)
(* Client.request (request construction and credential check).             *)
(*                                                                         *)
(* A call is a process whose position is pc[c]; its suspension points are  *)
(* the backoff select, RateLimiter.Wait and HTTPClient.Do.  The code that  *)
(* runs between two suspension points is one step.                         *)
(***************************************************************************)
EXTENDS Integers, Sequences, FiniteSets, TLC

----------------------------------------------------------------------------
(* Bounds of the model *)

NumCalls == 2          \* goroutines calling one client concurrently
MaxRetriesBound == 3   \* largest RetryPolicy.MaxRetries drawn
MaxDelayBound == 2     \* largest Min/MaxRetryDelay drawn (time units)
DurBits == 4           \* width of time.Duration (int64 in Go), scaled down
MaxBurst == 2          \* largest burst of an injected rate limiter
MaxPages == 2          \* largest number of result pages of a zone listing

Calls == 1..NumCalls

----------------------------------------------------------------------------
(* Constants of the program *)

StatusTooManyRequests == 429
StatusBadRequest == 400
StatusInternalServerError == 500
DefaultBurst == 1

ValidateExprPath == "/filters/validate-expr"

----------------------------------------------------------------------------
(* time.Duration arithmetic *)

MaxDur == 2^(DurBits - 1) - 1
MinDur == -(2^(DurBits - 1))

\* math.Pow(2, n) for n >= 0
RECURSIVE Pow2(_)
Pow2(n) == IF n <= 0 THEN 1 ELSE 2 * Pow2(n - 1)

\* time.Duration(f): conversion of a float64 to int64.  A value the type
\* cannot represent converts to an implementation-dependent result: the
\* smallest int64 on amd64, the largest int64 on arm64.
DurationOfFloat(f, a) ==
  IF f > MaxDur THEN (IF a = "amd64" THEN MinDur ELSE MaxDur)
  ELSE IF f < MinDur THEN MinDur
  ELSE f

\* the backoff slept before retry attempt idx (idx > 0)
sleepDuration(idx, policy, a) ==
  LET d == DurationOfFloat(Pow2(idx - 1) * policy.MinRetryDelay, a)
  IN  IF d > policy.MaxRetryDelay THEN policy.MaxRetryDelay ELSE d

LoopConditionExclusive(idx, policy) == idx < policy.MaxRetries

\* the `for` condition of the retry loop
LoopCondition(idx, policy) == idx <= policy.MaxRetries

ShouldBackoffAlways(idx) == idx >= 0

\* `if i > 0`: a backoff precedes every attempt but the first
ShouldBackoff(idx) == idx > 0

----------------------------------------------------------------------------
(* Errors and responses *)

\* error values; Nil is the nil error
MkErr(kind, cause, status, errs, ray, msg) ==
  [kind |-> kind, cause |-> cause, StatusCode |-> status, Errors |-> errs,
   RayID |-> ray, msg |-> msg]
Nil == MkErr("nil", "", 0, <<>>, "", "")
ErrTransport(cause) == MkErr("HTTP request failed", cause, 0, <<>>, "", "")
ErrNoCredentials == MkErr("no user credentials provided", "", 0, <<>>, "", "")
ErrReadBody == MkErr("could not read response body", "read", 0, <<>>, "", "")
ErrAborted(cause) == MkErr("operation aborted during backoff", cause, 0, <<>>, "", "")
ErrRateLimit(cause) == MkErr("error caused by request rate limiting", cause, 0, <<>>, "", "")
ErrRawBody(body) == MkErr("raw body", "", 0, <<>>, "", body)
ErrServiceFailure(status) == MkErr("service failure", "", status, <<>>, "", "")
errUnmarshalErrorBody == MkErr("error unmarshalling the JSON response error body", "json", 0, <<>>, "", "")
APIRequestError(status, errs, ray) == MkErr("APIRequestError", "", status, errs, ray, "")

\* ctx.Err() of a cancelled context
CtxErr == "context canceled"

\* errors.Wrap(err, msg) is nil when err is nil
Wrap(err, wrapped) == IF err = Nil THEN Nil ELSE wrapped

\* response bodies the server may send
EnvOK == "{success:true,result:{id:z1}}"
EnvErr == "{success:false,errors:[{code:9109,message:Invalid access},{code:1000,message:nope}]}"
Garbage == "<html>bad gateway"
Bodies == {EnvOK, EnvErr, Garbage}

\* json.Unmarshal(respBody, &errBody) into Response
Unmarshal(body) ==
  IF body = EnvOK THEN [ok |-> TRUE, Errors |-> <<>>]
  ELSE IF body = EnvErr
    THEN [ok |-> TRUE,
          Errors |-> << [Code |-> 9109, Message |-> "Invalid access"],
                        [Code |-> 1000, Message |-> "nope"] >>]
  ELSE [ok |-> FALSE, Errors |-> <<>>]

Statuses == {200, 403, 429, 500, 503}
Rays == {"", "ray-1"}

\* *http.Response; NoResp is the nil response.  readErr: reading the body
\* fails (ioutil.ReadAll returns an error); what a broken stream carried is
\* never used, so one body stands for it
Responses ==
  { r \in [status : Statuses, body : Bodies, readErr : BOOLEAN, ray : Rays] :
      r.readErr => r.body = Garbage }
NoResp == [status |-> 0, body |-> "", readErr |-> FALSE, ray |-> ""]

\* what HTTPClient.Do yields: a transport error or a response
Outcomes ==
  {[err |-> ErrTransport("transport"), resp |-> NoResp]}
    \cup {[err |-> Nil, resp |-> r] : r \in Responses}
CancelledOutcome == [err |-> ErrTransport(CtxErr), resp |-> NoResp]

\* ioutil.ReadAll(resp.Body)
ReadAll(r) ==
  IF r.readErr THEN [body |-> "", err |-> ErrReadBody]
  ELSE [body |-> r.body, err |-> Nil]

IsRetryableStatusAnyError(status) == status >= StatusBadRequest

\* the retry condition on a response
IsRetryableStatus(status) ==
  status = StatusTooManyRequests \/ status >= 500

\* strings.HasSuffix(resp.Request.URL.Path, "/filters/validate-expr")
HasValidateSuffix(path) == path = ValidateExprPath

NoCredentialsInverted(cl) ==
  cl.Key = "" /\ cl.Email = "" /\ cl.Token = "" /\ cl.UserServiceKey # ""

\* the credential check of Client.request
NoCredentials(cl) ==
  cl.Key = "" /\ cl.Email = "" /\ cl.Token = "" /\ cl.UserServiceKey = ""

\* a returned pair ([]byte, error); a nil slice is ""
Ret(body, err) == [body |-> body, err |-> err]
NoRet == Ret("", Nil)

PostLoopDropsBody(path, r, rerr, rbody) ==
  IF rerr # Nil THEN Ret("", rerr)
  ELSE IF r.status >= StatusBadRequest THEN
    IF HasValidateSuffix(path) THEN Ret("", ErrRawBody(rbody))
    ELSE IF r.status > StatusInternalServerError
      THEN Ret("", ErrServiceFailure(r.status))
    ELSE LET e == Unmarshal(rbody)
         IN  IF ~e.ok THEN Ret("", errUnmarshalErrorBody)
             ELSE Ret("", APIRequestError(r.status, e.Errors, r.ray))
  ELSE Ret("", Nil)

PostLoopServiceFailureFirst(path, r, rerr, rbody) ==
  IF rerr # Nil THEN Ret("", rerr)
  ELSE IF r.status >= StatusBadRequest THEN
    IF r.status > StatusInternalServerError
      THEN Ret("", ErrServiceFailure(r.status))
    ELSE IF HasValidateSuffix(path) THEN Ret("", ErrRawBody(rbody))
    ELSE LET e == Unmarshal(rbody)
         IN  IF ~e.ok THEN Ret("", errUnmarshalErrorBody)
             ELSE Ret("", APIRequestError(r.status, e.Errors, r.ray))
  ELSE Ret(rbody, Nil)

PostLoopWrapsExhausted(path, r, rerr, rbody) ==
  IF rerr # Nil THEN Ret("", MkErr("retries exhausted", rerr.kind, 0, <<>>, "", ""))
  ELSE IF r.status >= StatusBadRequest THEN
    IF HasValidateSuffix(path) THEN Ret("", ErrRawBody(rbody))
    ELSE IF r.status > StatusInternalServerError
      THEN Ret("", ErrServiceFailure(r.status))
    ELSE LET e == Unmarshal(rbody)
         IN  IF ~e.ok THEN Ret("", errUnmarshalErrorBody)
             ELSE Ret("", APIRequestError(r.status, e.Errors, r.ray))
  ELSE Ret(rbody, Nil)

\* makeRequest after the retry loop: the status check and the decoder
PostLoop(path, r, rerr, rbody) ==
  IF rerr # Nil THEN Ret("", rerr)
  ELSE IF r.status >= StatusBadRequest THEN
    IF HasValidateSuffix(path) THEN Ret("", ErrRawBody(rbody))
    ELSE IF r.status > StatusInternalServerError
      THEN Ret("", ErrServiceFailure(r.status))
    ELSE LET e == Unmarshal(rbody)
         IN  IF ~e.ok THEN Ret("", errUnmarshalErrorBody)
             ELSE Ret("", APIRequestError(r.status, e.Errors, r.ray))
  ELSE Ret(rbody, Nil)

----------------------------------------------------------------------------
(* The zones service *)

\* the body of a successful answer to GET /zones: a ZonesResponse envelope
\* whose result holds the zones of the page asked for and whose result_info
\* gives total_pages
EnvZones == "{success:true,result:[...],result_info:{page:..,total_pages:..}}"

\* the zones the server lists on page p (one zone a page, named by the page)
PageZones(p) == {p}

\* a request that names no page is answered with the first page
FirstPage == 1

\* what a facade method returned: the zones and the error
FRet(zones, err) == [zones |-> zones, err |-> err]
NoFRet == FRet({}, Nil)

ErrUnmarshalZone ==
  MkErr("failed to unmarshal zone JSON data", "json", 0, <<>>, "", "")

\* json.Unmarshal(res, &r) into ZonesResponse, for the answer to a request
\* for page p: an empty input and a non-JSON body are errors, an error
\* envelope decodes to an empty result
UnmarshalZones(res, p) ==
  IF res = EnvZones THEN [ok |-> TRUE, Result |-> PageZones(p)]
  ELSE IF res = EnvErr THEN [ok |-> TRUE, Result |-> {}]
  ELSE [ok |-> FALSE, Result |-> {}]

\* ZonesService.List after its one Call: the error of Call is dropped, the
\* body is decoded and r.Result returned
ZonesList(res, total) ==
  LET r == UnmarshalZones(res, FirstPage)
  IN  IF ~r.ok THEN FRet({}, ErrUnmarshalZone) ELSE FRet(r.Result, Nil)

\* the body of a successful answer to GET or DELETE /zones/<id>: a
\* ZoneResponse envelope
EnvZone == EnvOK

\* a zone identifier that isValidZoneIdentifier accepts, and one it rejects
ValidZoneID == "023e105f4ecef8ad9ca31a8372d0c353"
InvalidZoneID == "not-a-zone"
isValidZoneIdentifier(id) == id = ValidZoneID

ErrInvalidZoneIdentifier == MkErr("invalid zone identifier", "", 0, <<>>, "", "")

\* json.Unmarshal(res, &r) into ZoneResponse: an empty input, a non-JSON
\* body and a result that is a list are errors, an error envelope decodes to
\* the zero Zone
UnmarshalZone(res) ==
  IF res = EnvZone THEN [ok |-> TRUE, Result |-> {"z1"}]
  ELSE IF res = EnvErr THEN [ok |-> TRUE, Result |-> {}]
  ELSE [ok |-> FALSE, Result |-> {}]

\* ZonesService.Get after its Call returned (res, err): err is dropped, the
\* body is decoded and r.Result returned
ZonesGet(res, err) ==
  LET r == UnmarshalZone(res)
  IN  IF ~r.ok THEN FRet({}, ErrUnmarshalZone) ELSE FRet(r.Result, Nil)

\* ZonesService.Delete after its Call returned (res, err): err is dropped,
\* the body is decoded and nil returned
ZonesDelete(res, err) ==
  LET r == UnmarshalZone(res)
  IN  IF ~r.ok THEN FRet({}, ErrUnmarshalZone) ELSE FRet({}, Nil)

\* the entry points of ZonesService
FacadeOps == {"Get", "List", "Delete"}

----------------------------------------------------------------------------
(* The payload of a call *)

\* the payload argument: nil, a []byte, a value json.Marshal encodes, a value
\* it cannot encode, or an io.Reader over some bytes; bytes are a sequence
NoPayload == [kind |-> "nil", data |-> << >>]
Payloads ==
  { NoPayload,
    [kind |-> "bytes", data |-> << "a", "b" >>],
    [kind |-> "struct", data |-> << "n" >>],
    [kind |-> "unencodable", data |-> << >>],
    [kind |-> "reader", data |-> << "a", "b" >>] }

\* json.Marshal(params)
jsonMarshal(data) == << "{" >> \o data \o << "}" >>

ErrMarshal == MkErr("error marshalling params to JSON", "json", 0, <<>>, "", "")

\* the bytes under reqBody, the one reader makeRequest builds before its loop
ReqBodyBytes(p) ==
  IF p.kind = "struct" THEN jsonMarshal(p.data) ELSE p.data

\* the body of a request made by http.NewRequestWithContext over reqBody
\* when pos bytes of it have been read: what is left in the reader
RequestBody(p, pos) ==
  LET buf == ReqBodyBytes(p) IN SubSeq(buf, pos + 1, Len(buf))

----------------------------------------------------------------------------
(* Construction of a client *)

\* a nil pointer, a nil interface
NilVal == "nil"

\* http.Header: a map from the keys that are present to their values; a nil
\* map reads like an empty one
EmptyHeader == [k \in {} |-> ""]

DefaultBaseURL == "https://api.cloudflare.com/client/v4"
DefaultUserAgent == "cloudflare-go/dev"
DefaultHTTPClient == "http.DefaultClient"
DefaultLimiter == "rate.NewLimiter(rate.Limit(4), 1)"
DefaultLogger == "silentLogger"
DefaultMaxRetries == 3
DefaultMinRetryDelay == 1

\* 30 s, on the model's scale of Duration: as in the program, every delay the
\* default policy computes (1, 2, 4) stays below it
DefaultMaxRetryDelay == MaxDur

DefaultRetryPolicy ==
  [MaxRetries |-> DefaultMaxRetries, MinRetryDelay |-> DefaultMinRetryDelay,
   MaxRetryDelay |-> DefaultMaxRetryDelay]

\* the zero value of RetryPolicy: a ClientParams that does not set it
ZeroPolicy == [MaxRetries |-> 0, MinRetryDelay |-> 0, MaxRetryDelay |-> 0]

\* what a caller injects
CustomBaseURL == "https://proxy.example/v4"
CustomUserAgent == "my-agent/1"
CustomHTTPClient == "myCustomHTTPClient"
CustomLimiter == "rate.NewLimiter(r, b)"
CustomLogger == "myLogger"
CustomPolicy == [MaxRetries |-> 1, MinRetryDelay |-> 1, MaxRetryDelay |-> 1]
CustomHeaders == [k \in {"X-Trace"} |-> "on"]

\* the zero ClientParams
ZeroParams ==
  [Key |-> "", Email |-> "", Token |-> "", UserServiceKey |-> "",
   BaseURL |-> NilVal, UserAgent |-> "", HTTPClient |-> NilVal,
   RateLimiter |-> NilVal, RetryPolicy |-> ZeroPolicy, Headers |-> EmptyHeader,
   Logger |-> NilVal]

\* the package-level Key, Email, Token, UserServiceKey: none set
NoGlobals == [Key |-> "", Email |-> "", Token |-> "", UserServiceKey |-> ""]

ErrExclusive ==
  MkErr("API key and tokens are mutually exclusive", "", 0, <<>>, "", "")

\* mergo.Merge on one field: the destination keeps a non-zero value
MergeField(dst, zero, def) == IF dst = zero THEN def ELSE dst

NewAPIClientLocalWins(config, g) ==
  [err |-> Nil,
   client |->
     [Key |-> IF config.Key # "" THEN config.Key ELSE g.Key,
      Email |-> IF config.Key # "" THEN config.Email ELSE g.Email,
      Token |-> IF config.Token # "" THEN config.Token ELSE g.Token,
      UserServiceKey |-> IF config.UserServiceKey # ""
                           THEN config.UserServiceKey ELSE g.UserServiceKey,
      BaseURL |-> MergeField(config.BaseURL, NilVal, DefaultBaseURL),
      UserAgent |-> MergeField(config.UserAgent, "", DefaultUserAgent),
      HTTPClient |-> MergeField(config.HTTPClient, NilVal, DefaultHTTPClient),
      RateLimiter |-> MergeField(config.RateLimiter, NilVal, DefaultLimiter),
      RetryPolicy |->
        [MaxRetries |-> MergeField(config.RetryPolicy.MaxRetries, 0,
                                   DefaultMaxRetries),
         MinRetryDelay |-> MergeField(config.RetryPolicy.MinRetryDelay, 0,
                                      DefaultMinRetryDelay),
         MaxRetryDelay |-> MergeField(config.RetryPolicy.MaxRetryDelay, 0,
                                      DefaultMaxRetryDelay)],
      Headers |-> config.Headers,
      Logger |-> MergeField(config.Logger, NilVal, DefaultLogger)]]

\* New of the APIClient revision: mergo.Merge fills the zero fields of config
\* from the defaults (RetryPolicy field by field), then the package-level
\* credentials override the merged ones
NewAPIClient(config, g) ==
  [err |-> Nil,
   client |->
     [Key |-> IF g.Key # "" THEN g.Key ELSE config.Key,
      Email |-> IF g.Key # "" THEN g.Email ELSE config.Email,
      Token |-> IF g.Token # "" THEN g.Token ELSE config.Token,
      UserServiceKey |-> IF g.UserServiceKey # ""
                           THEN g.UserServiceKey ELSE config.UserServiceKey,
      BaseURL |-> MergeField(config.BaseURL, NilVal, DefaultBaseURL),
      UserAgent |-> MergeField(config.UserAgent, "", DefaultUserAgent),
      HTTPClient |-> MergeField(config.HTTPClient, NilVal, DefaultHTTPClient),
      RateLimiter |-> MergeField(config.RateLimiter, NilVal, DefaultLimiter),
      RetryPolicy |->
        [MaxRetries |-> MergeField(config.RetryPolicy.MaxRetries, 0,
                                   DefaultMaxRetries),
         MinRetryDelay |-> MergeField(config.RetryPolicy.MinRetryDelay, 0,
                                      DefaultMinRetryDelay),
         MaxRetryDelay |-> MergeField(config.RetryPolicy.MaxRetryDelay, 0,
                                      DefaultMaxRetryDelay)],
      Headers |-> config.Headers,
      Logger |-> MergeField(config.Logger, NilVal, DefaultLogger)]]

\* New of the Client revision: starts from an empty ClientParams, installs a
\* default where config has none, always installs the default RetryPolicy,
\* refuses a key together with a token, then copies the credentials; the
\* package-level credentials do not exist in this revision
New(config) ==
  IF config.Key # "" /\ config.Token # ""
    THEN [err |-> ErrExclusive, client |-> ZeroParams]
    ELSE
      [err |-> Nil,
       client |->
         [Key |-> config.Key,
          Email |-> IF config.Key # "" THEN config.Email ELSE "",
          Token |-> config.Token,
          UserServiceKey |-> config.UserServiceKey,
          BaseURL |-> IF config.BaseURL = NilVal THEN DefaultBaseURL ELSE NilVal,
          UserAgent |-> IF config.UserAgent = "" THEN DefaultUserAgent ELSE "",
          HTTPClient |-> IF config.HTTPClient = NilVal
                           THEN DefaultHTTPClient ELSE NilVal,
          RateLimiter |-> IF config.RateLimiter = NilVal
                            THEN DefaultLimiter ELSE NilVal,
          RetryPolicy |-> DefaultRetryPolicy,
          Headers |-> EmptyHeader,
          Logger |-> IF config.Logger = NilVal THEN DefaultLogger ELSE NilVal]]

\* copyHeader(target, source): every key of source is set on target
copyHeaderKeepTarget(target, source) ==
  [k \in DOMAIN target \cup DOMAIN source |->
     IF k \in DOMAIN target THEN target[k] ELSE source[k]]

copyHeader(target, source) ==
  [k \in DOMAIN target \cup DOMAIN source |->
     IF k \in DOMAIN source THEN source[k] ELSE target[k]]

\* http.Header.Get and http.Header.Set
HeaderGet(h, k) == IF k \in DOMAIN h THEN h[k] ELSE ""
HeaderSet(h, k, v) == [x \in DOMAIN h \cup {k} |-> IF x = k THEN v ELSE h[x]]

\* the header of the request Client.request builds for client cl and the
\* call's extra headers: the merge, then the credential headers, User-Agent
\* and Content-Type
RequestHeader(cl, extra) ==
  LET combined == copyHeader(copyHeader(EmptyHeader, cl.Headers), extra)
      withKey ==
        IF cl.Key # ""
          THEN HeaderSet(HeaderSet(combined, "X-Auth-Key", cl.Key),
                         "X-Auth-Email", cl.Email)
          ELSE combined
      withService ==
        IF cl.UserServiceKey # ""
          THEN HeaderSet(withKey, "X-Auth-User-Service-Key", cl.UserServiceKey)
          ELSE withKey
      withToken ==
        IF cl.Token # ""
          THEN HeaderSet(withService, "Authorization", "Bearer " \o cl.Token)
          ELSE withService
      withAgent ==
        IF cl.UserAgent # ""
          THEN HeaderSet(withToken, "User-Agent", cl.UserAgent)
          ELSE withToken
  IN  IF HeaderGet(withAgent, "Content-Type") = ""
        THEN HeaderSet(withAgent, "Content-Type", "application/json")
        ELSE withAgent

\* the constructor named ctor applied to config under the package-level
\* credentials g; "fields": the client's exported fields were set one by one
Construct(ctor, config, g) ==
  IF ctor = "New" THEN New(config)
  ELSE IF ctor = "NewAPIClient" THEN NewAPIClient(config, g)
  ELSE [err |-> Nil, client |-> config]

\* the capacity of a client's rate limiter
LimiterBurst(lim) ==
  IF lim = CustomLimiter THEN MaxBurst
  ELSE IF lim = DefaultLimiter THEN DefaultBurst
  ELSE 0

----------------------------------------------------------------------------
(* State *)

VARIABLES
  ctor,          \* how the client was built: New, NewAPIClient, or field by field
  params,        \* the ClientParams given to the constructor
  globals,       \* the package-level credentials at construction
  newErr,        \* the error the constructor returned
  op,            \* op[c]: the entry point of call c: Call, CallWithHeaders, or a
                 \* ZonesService method
  headers,       \* headers[c]: the extra headers given to CallWithHeaders (nil for Call)
  reqHeader,     \* reqHeader[c]: the header of the latest request handed to Do
  totalPages,    \* the number of result pages of the server's zone listing
  payload,       \* payload[c]: the payload given to the call
  readerPos,     \* readerPos[c]: how many bytes of reqBody have been read
  sentBodies,    \* sentBodies[c]: the request body of each request handed to Do
  zoneID,        \* zoneID[c]: the zone identifier given to ZonesService.Get or Delete
  facadeCtx,     \* facadeCtx[c]: the context given to the ZonesService method:
                 \* "live", or where the call was when it was cancelled
  fret,          \* fret[c]: what the ZonesService method returned
  client,        \* the client's ClientParams
  arch,          \* the architecture the program was built for
  callers,       \* the goroutines that call the client
  server,        \* what the server and the network may answer to a request
  uri,           \* uri[c]: the path of call c
  pc,            \* pc[c]: idle, backoff, wait, inflight, done, panic
  i,             \* i[c]: the loop index of makeRequest
  ctxDone,       \* ctxDone[c]: the call's context is cancelled
  resp,          \* resp[c], respErr[c], respBody[c]: locals of makeRequest
  respErr,
  respBody,
  ret,           \* ret[c]: what makeRequest returned
  sends,         \* sends[c]: invocations of HTTPClient.Do by call c
  acquired,      \* acquired[c]: rate-limit tokens granted to call c
  slept,         \* slept[c]: the delays of the "sleeping ..." log lines
  allTransport,  \* allTransport[c]: every attempt so far sent and failed at transport level
  firstErr,      \* firstErr[c]: the error Client.request returned in attempt 0
  lastErr,       \* lastErr[c]: the error Client.request returned in the latest attempt
  openBodies,    \* openBodies[c]: response bodies received minus calls of Body.Close
  tokens,        \* the rate limiter's bucket
  burst,         \* the rate limiter's capacity
  windowExcess   \* max over windows ending now of (sends - refills) in the window

\* what is fixed before the calls run
setup == << ctor, params, globals, newErr, op, headers, totalPages, zoneID, payload >>

vars == << setup, facadeCtx, readerPos, sentBodies, fret, reqHeader, client, arch, callers, server, uri, pc, i, ctxDone, resp, respErr, respBody,
           ret, sends, acquired, slept, allTransport, firstErr, lastErr, openBodies,
           tokens, burst, windowExcess >>

Policies ==
  { [MaxRetries |-> n, MinRetryDelay |-> a, MaxRetryDelay |-> b] :
      n \in 0..MaxRetriesBound, a \in 1..MaxDelayBound, b \in 1..MaxDelayBound }

ValidPolicies == { p \in Policies : p.MaxRetryDelay >= p.MinRetryDelay }

\* the credentials a client may hold: none, an email alone, key and email,
\* a token, a service key, a token with a service key
Credentials ==
  { cr \in [Key : {"", "key"}, Email : {"", "email"}, Token : {"", "token"},
            UserServiceKey : {"", "usk"}] :
      /\ cr.Key # "" => (cr.Email # "" /\ cr.Token = "" /\ cr.UserServiceKey = "")
      /\ (cr.Email # "" /\ cr.Key = "") => (cr.Token = "" /\ cr.UserServiceKey = "") }

\* clients with every injected dependency in place
Clients ==
  { [Key |-> cr.Key, Email |-> cr.Email, Token |-> cr.Token,
     UserServiceKey |-> cr.UserServiceKey, RetryPolicy |-> p,
     BaseURL |-> DefaultBaseURL, UserAgent |-> DefaultUserAgent,
     HTTPClient |-> DefaultHTTPClient, RateLimiter |-> DefaultLimiter,
     Headers |-> EmptyHeader, Logger |-> DefaultLogger] :
      cr \in Credentials, p \in ValidPolicies }

\* the client was assembled field by field
Assembled ==
  /\ ctor = "fields"
  /\ params = client
  /\ globals = NoGlobals
  /\ newErr = Nil

\* the locals of the calls before they start
InitLocals ==
  /\ fret = [c \in Calls |-> NoFRet]
  /\ facadeCtx = [c \in Calls |-> "live"]
  /\ readerPos = [c \in Calls |-> 0]
  /\ sentBodies = [c \in Calls |-> << >>]
  /\ reqHeader = [c \in Calls |-> EmptyHeader]
  /\ pc = [c \in Calls |-> "idle"]
  /\ i = [c \in Calls |-> 0]
  /\ ctxDone = [c \in Calls |-> FALSE]
  /\ resp = [c \in Calls |-> NoResp]
  /\ respErr = [c \in Calls |-> Nil]
  /\ respBody = [c \in Calls |-> ""]
  /\ ret = [c \in Calls |-> NoRet]
  /\ sends = [c \in Calls |-> 0]
  /\ acquired = [c \in Calls |-> 0]
  /\ slept = [c \in Calls |-> <<>>]
  /\ allTransport = [c \in Calls |-> TRUE]
  /\ firstErr = [c \in Calls |-> Nil]
  /\ lastErr = [c \in Calls |-> Nil]
  /\ openBodies = [c \in Calls |-> 0]
  /\ windowExcess = 0

\* every call enters through Client.Call
InitCalls ==
  /\ op = [c \in Calls |-> "Call"]
  /\ headers = [c \in Calls |-> EmptyHeader]
  /\ totalPages = 1
  /\ zoneID = [c \in Calls |-> ""]
  /\ payload = [c \in Calls |-> NoPayload]
  /\ InitLocals

\* one call on a client of any configuration, default limiter burst
Init ==
  /\ client \in Clients
  /\ Assembled
  /\ arch \in {"amd64", "arm64"}
  /\ callers = {1}
  /\ server = Outcomes
  /\ uri \in [Calls -> {"/zones", ValidateExprPath}]
  /\ \A c \in Calls \ callers : uri[c] = "/zones"
  /\ burst = DefaultBurst
  /\ tokens = burst
  /\ InitCalls

----------------------------------------------------------------------------
(* makeRequest *)

\* the loop header evaluated with index idx, the locals being r, rerr, rbody:
\* leave the loop, or log the backoff and sleep, or go on to the limiter
LoopNext(c, idx, r, rerr, rbody) ==
  LET policy == client.RetryPolicy IN
  /\ i' = [i EXCEPT ![c] = idx]
  /\ resp' = [resp EXCEPT ![c] = r]
  /\ respErr' = [respErr EXCEPT ![c] = rerr]
  /\ respBody' = [respBody EXCEPT ![c] = rbody]
  /\ IF ~LoopCondition(idx, policy) THEN
       /\ slept' = slept
       /\ IF rerr = Nil /\ r = NoResp
            THEN \* resp.StatusCode on a nil resp
                 /\ pc' = [pc EXCEPT ![c] = "panic"]
                 /\ ret' = ret
            ELSE /\ pc' = [pc EXCEPT ![c] = "done"]
                 /\ ret' = [ret EXCEPT ![c] = PostLoop(uri[c], r, rerr, rbody)]
     ELSE IF ShouldBackoff(idx) THEN
       LET d == sleepDuration(idx, policy, arch) IN
       /\ slept' = [slept EXCEPT ![c] = Append(@, d)]
       /\ IF d > 0
            THEN /\ pc' = [pc EXCEPT ![c] = "backoff"]
                 /\ ret' = ret
            ELSE \* the timer has already expired: select takes any ready case
                 \/ /\ pc' = [pc EXCEPT ![c] = "wait"]
                    /\ ret' = ret
                 \/ /\ ctxDone[c]
                    /\ pc' = [pc EXCEPT ![c] = "done"]
                    /\ ret' = [ret EXCEPT ![c] = Ret("", ErrAborted(CtxErr))]
     ELSE
       /\ slept' = slept
       /\ pc' = [pc EXCEPT ![c] = "wait"]
       /\ ret' = ret

CallSkipsLimiter(c) ==
  /\ pc[c] = "idle"
  /\ pc' = [pc EXCEPT ![c] = "inflight"]
  /\ sends' = [sends EXCEPT ![c] = @ + 1]
  /\ UNCHANGED << setup, facadeCtx, readerPos, sentBodies, fret, reqHeader, client, arch, callers, server, uri, i, ctxDone,
                  resp, respErr, respBody, ret, slept, acquired, allTransport,
                  firstErr, lastErr, openBodies, tokens, burst, windowExcess >>

\* Client.Call: makeRequest enters the retry loop
Call(c) ==
  /\ pc[c] = "idle"
  /\ op[c] \in {"Get", "Delete"} => isValidZoneIdentifier(zoneID[c])
  /\ IF payload[c].kind = "unencodable"
       THEN \* json.Marshal fails: makeRequest returns before the loop
            /\ pc' = [pc EXCEPT ![c] = "done"]
            /\ ret' = [ret EXCEPT ![c] = Ret("", ErrMarshal)]
            /\ UNCHANGED << i, resp, respErr, respBody, slept >>
       ELSE LoopNext(c, 0, NoResp, Nil, "")
  /\ UNCHANGED << setup, facadeCtx, readerPos, sentBodies, fret, reqHeader, client, arch, callers, server, uri, ctxDone, sends, acquired,
                  allTransport, firstErr, lastErr, openBodies, tokens, burst, windowExcess >>

\* the backoff select: the timer fires first
BackoffElapse(c) ==
  /\ pc[c] = "backoff"
  /\ ~ctxDone[c]
  /\ pc' = [pc EXCEPT ![c] = "wait"]
  /\ UNCHANGED << setup, facadeCtx, readerPos, sentBodies, fret, reqHeader, client, arch, callers, server, uri, i, ctxDone, resp, respErr,
                  respBody, ret, sends, acquired, slept, allTransport, firstErr, lastErr, openBodies,
                  tokens, burst, windowExcess >>

BackoffAbortIgnored(c) ==
  /\ pc[c] = "backoff"
  /\ ctxDone[c]
  /\ pc' = [pc EXCEPT ![c] = "wait"]
  /\ UNCHANGED << setup, facadeCtx, readerPos, sentBodies, fret, reqHeader, client, arch, callers, server, uri, i, ctxDone, resp, respErr,
                  respBody, ret, sends, acquired, slept, allTransport, firstErr, lastErr, openBodies,
                  tokens, burst, windowExcess >>

\* the backoff select: ctx.Done() is closed
BackoffAbort(c) ==
  /\ pc[c] = "backoff"
  /\ ctxDone[c]
  /\ pc' = [pc EXCEPT ![c] = "done"]
  /\ ret' = [ret EXCEPT ![c] = Ret("", ErrAborted(CtxErr))]
  /\ UNCHANGED << setup, facadeCtx, readerPos, sentBodies, fret, reqHeader, client, arch, callers, server, uri, i, ctxDone, resp, respErr,
                  respBody, sends, acquired, slept, allTransport, firstErr, lastErr, openBodies,
                  tokens, burst, windowExcess >>

WaitOKNoCtx(c) == tokens >= 1

\* RateLimiter.Wait(ctx) returns nil: the context is live and a token is there
WaitOK(c) == ~ctxDone[c] /\ tokens >= 1

TokensTakenFirstOnly(idx) == IF idx = 0 THEN 1 ELSE 0

\* RateLimiter.Wait(ctx) is called in every iteration of the loop and takes one
\* token
TokensTaken(idx) == 1

\* RateLimiter.Wait grants a token, then Client.request builds the request,
\* checks the credentials and hands the request to HTTPClient.Do
WaitGrant(c) ==
  /\ pc[c] = "wait"
  /\ client.RateLimiter # NilVal
  /\ WaitOK(c)
  /\ tokens' = tokens - TokensTaken(i[c])
  /\ acquired' = [acquired EXCEPT ![c] = @ + TokensTaken(i[c])]
  /\ IF \/ client.BaseURL = NilVal
        \/ NoCredentials(client) /\ client.Logger = NilVal
        \/ ~NoCredentials(client) /\ client.HTTPClient = NilVal
       THEN \* api.BaseURL.String(), c.Logger.Printf or api.HTTPClient.Do
            \* on nil: the goroutine panics
            /\ pc' = [pc EXCEPT ![c] = "panic"]
            /\ UNCHANGED << i, resp, respErr, respBody, ret, slept, allTransport,
                            firstErr, lastErr, sends, windowExcess, reqHeader,
                            sentBodies >>
     ELSE IF NoCredentials(client)
       THEN \* request returns (nil, err): logged, then `continue`
            /\ LoopNext(c, i[c] + 1, NoResp, ErrNoCredentials, respBody[c])
            /\ allTransport' = [allTransport EXCEPT ![c] = FALSE]
            /\ lastErr' = [lastErr EXCEPT ![c] = ErrNoCredentials]
            /\ firstErr' = [firstErr EXCEPT ![c] =
                              IF i[c] = 0 THEN ErrNoCredentials ELSE @]
            /\ UNCHANGED << sends, windowExcess, reqHeader, sentBodies >>
       ELSE /\ pc' = [pc EXCEPT ![c] = "inflight"]
            /\ reqHeader' = [reqHeader EXCEPT ![c] =
                               RequestHeader(client, headers[c])]
            /\ sentBodies' = [sentBodies EXCEPT ![c] =
                                Append(@, RequestBody(payload[c], readerPos[c]))]
            /\ sends' = [sends EXCEPT ![c] = @ + 1]
            /\ windowExcess' = windowExcess + 1
            /\ UNCHANGED << i, resp, respErr, respBody, ret, slept, allTransport,
                            firstErr, lastErr >>
  /\ UNCHANGED << setup, facadeCtx, readerPos, fret, client, arch, callers, server, uri, ctxDone, openBodies,
                  burst >>

\* c.RateLimiter.Wait(ctx) on a nil limiter: the goroutine panics
WaitPanic(c) ==
  /\ pc[c] = "wait"
  /\ client.RateLimiter = NilVal
  /\ pc' = [pc EXCEPT ![c] = "panic"]
  /\ UNCHANGED << setup, facadeCtx, readerPos, sentBodies, fret, reqHeader, client, arch, callers, server, uri, i, ctxDone, resp, respErr,
                  respBody, ret, sends, acquired, slept, allTransport, firstErr, lastErr, openBodies,
                  tokens, burst, windowExcess >>

WaitFailContinues(c) ==
  /\ pc[c] = "wait"
  /\ client.RateLimiter # NilVal
  /\ ctxDone[c]
  /\ LoopNext(c, i[c] + 1, NoResp, ErrRateLimit(CtxErr), respBody[c])
  /\ UNCHANGED << setup, facadeCtx, readerPos, sentBodies, fret, reqHeader, client, arch, callers, server, uri, ctxDone,
                  sends, acquired, allTransport, firstErr, lastErr, openBodies,
                  tokens, burst, windowExcess >>

\* RateLimiter.Wait(ctx) fails: the context is cancelled
WaitFail(c) ==
  /\ pc[c] = "wait"
  /\ client.RateLimiter # NilVal
  /\ ctxDone[c]
  /\ pc' = [pc EXCEPT ![c] = "done"]
  /\ ret' = [ret EXCEPT ![c] = Ret("", ErrRateLimit(CtxErr))]
  /\ UNCHANGED << setup, facadeCtx, readerPos, sentBodies, fret, reqHeader, client, arch, callers, server, uri, i, ctxDone, resp, respErr,
                  respBody, sends, acquired, slept, allTransport, firstErr, lastErr, openBodies,
                  tokens, burst, windowExcess >>

BodyClosesOnReturnOnly(branch) == IF branch = "return" THEN 1 ELSE 0

\* the calls of resp.Body.Close() on a response received in a branch of the
\* classification: the retry branch closes the body right after reading it,
\* the terminal branch defers the close, which runs when makeRequest returns
BodyCloses(branch) == 1

\* HTTPClient.Do returns o; makeRequest classifies the outcome
DoReturn(c, o) ==
  /\ pc[c] = "inflight"
  /\ IF ctxDone[c] THEN o = CancelledOutcome ELSE o \in server
  /\ \* the transport read the request body from reqBody: all of it when a
     \* response came back, any part of it when the exchange failed
     \E n \in readerPos[c]..Len(ReqBodyBytes(payload[c])) :
       /\ o.err = Nil => n = Len(ReqBodyBytes(payload[c]))
       /\ readerPos' = [readerPos EXCEPT ![c] = n]
  /\ allTransport' = [allTransport EXCEPT ![c] = @ /\ o.err # Nil]
  /\ lastErr' = [lastErr EXCEPT ![c] = o.err]
  /\ firstErr' = [firstErr EXCEPT ![c] = IF i[c] = 0 THEN o.err ELSE @]
  /\ openBodies' =
       [openBodies EXCEPT ![c] =
          IF o.err # Nil THEN @
          ELSE IF IsRetryableStatus(o.resp.status) THEN @ + 1 - BodyCloses("retry")
          ELSE @ + 1 - BodyCloses("return")]
  /\ IF (o.err # Nil \/ IsRetryableStatus(o.resp.status))
          /\ client.Logger = NilVal THEN
       \* c.Logger.Printf on a nil Logger: the goroutine panics
       /\ pc' = [pc EXCEPT ![c] = "panic"]
       /\ UNCHANGED << i, resp, respErr, respBody, ret, slept >>
     ELSE IF o.err # Nil THEN
       \* logged, then `continue`
       LoopNext(c, i[c] + 1, NoResp, o.err, respBody[c])
     ELSE IF IsRetryableStatus(o.resp.status) THEN
       \* body read and closed, logged, then `continue`
       LET rd == ReadAll(o.resp) IN
       LoopNext(c, i[c] + 1, o.resp, Wrap(rd.err, ErrReadBody), rd.body)
     ELSE
       LET rd == ReadAll(o.resp) IN
       /\ i' = i
       /\ slept' = slept
       /\ resp' = [resp EXCEPT ![c] = o.resp]
       /\ respErr' = [respErr EXCEPT ![c] = Nil]
       /\ respBody' = [respBody EXCEPT ![c] = rd.body]
       /\ pc' = [pc EXCEPT ![c] = "done"]
       /\ ret' = [ret EXCEPT ![c] =
                    IF rd.err # Nil THEN Ret("", Wrap(rd.err, ErrReadBody))
                    ELSE PostLoop(uri[c], o.resp, Nil, rd.body)]
  /\ UNCHANGED << setup, facadeCtx, sentBodies, fret, reqHeader, client, arch, callers, server, uri, ctxDone, sends, acquired,
                  tokens, burst, windowExcess >>

----------------------------------------------------------------------------
(* Environment *)

\* the caller cancels the context it gave to Client.Call or
\* Client.CallWithHeaders (the ZonesService
\* methods call with context.Background(), which is never cancelled)
Cancel(c) ==
  /\ op[c] \in {"Call", "CallWithHeaders"}
  /\ pc[c] \in {"idle", "backoff", "wait", "inflight"}
  /\ ~ctxDone[c]
  /\ ctxDone' = [ctxDone EXCEPT ![c] = TRUE]
  /\ UNCHANGED << setup, facadeCtx, readerPos, sentBodies, fret, reqHeader, client, arch, callers, server, uri, pc, i, resp, respErr, respBody,
                  ret, sends, acquired, slept, allTransport, firstErr, lastErr, openBodies,
                  tokens, burst, windowExcess >>

\* time passes: the bucket gains a token, up to its capacity
Refill ==
  /\ tokens < burst \/ windowExcess > 0
  /\ tokens' = IF tokens < burst THEN tokens + 1 ELSE burst
  /\ windowExcess' = IF windowExcess > 0 THEN windowExcess - 1 ELSE 0
  /\ UNCHANGED << setup, facadeCtx, readerPos, sentBodies, fret, reqHeader, client, arch, callers, server, uri, pc, i, ctxDone, resp, respErr,
                  respBody, ret, sends, acquired, slept, allTransport, firstErr, lastErr, openBodies,
                  burst >>

Next ==
  \/ \E c \in callers : Call(c)
  \/ \E c \in callers : BackoffElapse(c)
  \/ \E c \in callers : BackoffAbort(c)
  \/ \E c \in callers : WaitGrant(c)
  \/ \E c \in callers : WaitFail(c)
  \/ \E c \in callers, o \in server \cup {CancelledOutcome} : DoReturn(c, o)
  \/ \E c \in callers : Cancel(c)
  \/ Refill

Spec == Init /\ [][Next]_vars

\* a server that fails at transport level, answers 200 or answers 429
FewOutcomes ==
  { o \in Outcomes :
      o.resp \in {NoResp,
                  [status |-> 200, body |-> EnvOK, readErr |-> FALSE, ray |-> ""],
                  [status |-> 429, body |-> EnvErr, readErr |-> FALSE, ray |-> ""]} }

\* concurrent calls on one client with a token, sharing its rate limiter
InitShared ==
  /\ client \in { cl \in Clients :
                    /\ cl.Key = "" /\ cl.Email = "" /\ cl.UserServiceKey = ""
                    /\ cl.RetryPolicy.MaxRetries <= 1
                    /\ cl.RetryPolicy.MinRetryDelay = 1
                    /\ cl.RetryPolicy.MaxRetryDelay = 1 }
  /\ Assembled
  /\ arch = "amd64"
  /\ callers = Calls
  /\ server = FewOutcomes
  /\ uri = [c \in Calls |-> "/zones"]
  /\ burst \in 1..MaxBurst
  /\ tokens = burst
  /\ InitCalls

SpecShared == InitShared /\ [][Next]_vars

\* the steps of call c: its goroutine runs, its timers fire, the transport
\* returns
Step(c) ==
  \/ BackoffElapse(c)
  \/ BackoffAbort(c)
  \/ WaitGrant(c)
  \/ WaitFail(c)
  \/ \E o \in server \cup {CancelledOutcome} : DoReturn(c, o)

\* one call on a client of any credentials and retry count, against a server
\* of few answers
InitFair ==
  /\ client \in { cl \in Clients :
                    cl.RetryPolicy.MinRetryDelay = cl.RetryPolicy.MaxRetryDelay }
  /\ Assembled
  /\ arch \in {"amd64", "arm64"}
  /\ callers = {1}
  /\ server = FewOutcomes
  /\ uri = [c \in Calls |-> "/zones"]
  /\ burst = DefaultBurst
  /\ tokens = burst
  /\ InitCalls

FairSpec == InitFair /\ [][Next]_vars /\ \A c \in Calls : WF_vars(Step(c))

\* a network that fails in two ways (connection refused, timeout) before a
\* server that answers 200 or 503
FlakyOutcomes ==
  { [err |-> ErrTransport("connection refused"), resp |-> NoResp],
    [err |-> ErrTransport("i/o timeout"), resp |-> NoResp],
    [err |-> Nil,
     resp |-> [status |-> 200, body |-> EnvOK, readErr |-> FALSE, ray |-> ""]],
    [err |-> Nil,
     resp |-> [status |-> 503, body |-> Garbage, readErr |-> FALSE, ray |-> ""]],
    [err |-> Nil,
     resp |-> [status |-> 503, body |-> Garbage, readErr |-> TRUE, ray |-> ""]] }

\* one call on a client with a token, over the flaky network
InitFlaky ==
  /\ client \in { cl \in Clients :
                    /\ cl.Key = "" /\ cl.Email = "" /\ cl.UserServiceKey = ""
                    /\ cl.Token # "" }
  /\ Assembled
  /\ arch = "amd64"
  /\ callers = {1}
  /\ server = FlakyOutcomes
  /\ uri = [c \in Calls |-> "/zones"]
  /\ burst = DefaultBurst
  /\ tokens = burst
  /\ InitCalls

SpecFlaky == InitFlaky /\ [][Next]_vars

\* the ClientParams a caller writes: any credentials, and of the other
\* fields none, one, or all of them
AllCredentials ==
  [Key : {"", "key"}, Email : {"", "email"}, Token : {"", "token"},
   UserServiceKey : {"", "usk"}]

ParamFields ==
  {"BaseURL", "UserAgent", "HTTPClient", "RateLimiter", "RetryPolicy", "Headers",
   "Logger"}

SuppliedSets == {{}} \cup {{f} : f \in ParamFields} \cup {ParamFields}

Inject(cr, sup) ==
  [Key |-> cr.Key, Email |-> cr.Email, Token |-> cr.Token,
   UserServiceKey |-> cr.UserServiceKey,
   BaseURL |-> IF "BaseURL" \in sup THEN CustomBaseURL ELSE NilVal,
   UserAgent |-> IF "UserAgent" \in sup THEN CustomUserAgent ELSE "",
   HTTPClient |-> IF "HTTPClient" \in sup THEN CustomHTTPClient ELSE NilVal,
   RateLimiter |-> IF "RateLimiter" \in sup THEN CustomLimiter ELSE NilVal,
   RetryPolicy |-> IF "RetryPolicy" \in sup THEN CustomPolicy ELSE ZeroPolicy,
   Headers |-> IF "Headers" \in sup THEN CustomHeaders ELSE EmptyHeader,
   Logger |-> IF "Logger" \in sup THEN CustomLogger ELSE NilVal]

\* the values the package-level credentials may hold
GlobalCredentials ==
  [Key : {"", "g-key"}, Email : {"", "g-email"}, Token : {"", "g-token"},
   UserServiceKey : {"", "g-usk"}]

\* a client built by one of the two constructors, then one call on it; no
\* call when the constructor returned an error
InitNew ==
  /\ ctor \in {"New", "NewAPIClient"}
  /\ globals \in GlobalCredentials
  /\ ctor = "New" => globals = NoGlobals
  /\ \E cr \in AllCredentials, sup \in SuppliedSets :
        /\ globals # NoGlobals => sup = {}
        /\ params = Inject(cr, sup)
  /\ newErr = Construct(ctor, params, globals).err
  /\ client = Construct(ctor, params, globals).client
  /\ arch = "amd64"
  /\ callers = IF newErr = Nil THEN {1} ELSE {}
  /\ server = FewOutcomes
  /\ uri = [c \in Calls |-> "/zones"]
  /\ burst = LimiterBurst(client.RateLimiter)
  /\ tokens = burst
  /\ InitCalls

NextNew ==
  \/ Next
  \/ \E c \in callers : WaitPanic(c)

SpecNew == InitNew /\ [][NextNew]_vars

\* ZonesService.List returns, once its Call has returned
ListReturn(c) ==
  /\ op[c] = "List"
  /\ pc[c] = "done"
  /\ pc' = [pc EXCEPT ![c] = "returned"]
  /\ fret' = [fret EXCEPT ![c] = ZonesList(ret[c].body, totalPages)]
  /\ UNCHANGED << setup, facadeCtx, readerPos, sentBodies, reqHeader, client, arch, callers, server, uri, i, ctxDone, resp, respErr,
                  respBody, ret, sends, acquired, slept, allTransport, firstErr, lastErr,
                  openBodies, tokens, burst, windowExcess >>

\* a server of zones: transport failures, the listing, 429, garbage
ZoneOutcomes ==
  { [err |-> ErrTransport("transport"), resp |-> NoResp],
    [err |-> Nil,
     resp |-> [status |-> 200, body |-> EnvZones, readErr |-> FALSE, ray |-> ""]],
    [err |-> Nil,
     resp |-> [status |-> 200, body |-> Garbage, readErr |-> FALSE, ray |-> ""]],
    [err |-> Nil,
     resp |-> [status |-> 429, body |-> EnvErr, readErr |-> FALSE, ray |-> ""]] }

\* one call on a client with a token, through Client.Call or through
\* ZonesService.List, to a server whose listing has 1..MaxPages pages
InitZones ==
  /\ client \in { cl \in Clients :
                    /\ cl.Key = "" /\ cl.Email = "" /\ cl.UserServiceKey = ""
                    /\ cl.Token # ""
                    /\ cl.RetryPolicy.MinRetryDelay = cl.RetryPolicy.MaxRetryDelay }
  /\ Assembled
  /\ arch = "amd64"
  /\ callers = {1}
  /\ server = ZoneOutcomes
  /\ uri = [c \in Calls |-> "/zones"]
  /\ headers = [c \in Calls |-> EmptyHeader]
  /\ op \in [Calls -> {"Call", "List"}]
  /\ \A c \in Calls \ callers : op[c] = "Call"
  /\ totalPages \in 1..MaxPages
  /\ zoneID = [c \in Calls |-> ""]
  /\ payload = [c \in Calls |-> NoPayload]
  /\ burst = DefaultBurst
  /\ tokens = burst
  /\ InitLocals

NextZones ==
  \/ Next
  \/ \E c \in callers : ListReturn(c)

SpecZones == InitZones /\ [][NextZones]_vars

\* ZonesService.Get returns after its Call
GetReturn(c) ==
  /\ op[c] = "Get"
  /\ pc[c] = "done"
  /\ pc' = [pc EXCEPT ![c] = "returned"]
  /\ fret' = [fret EXCEPT ![c] = ZonesGet(ret[c].body, ret[c].err)]
  /\ UNCHANGED << setup, facadeCtx, readerPos, sentBodies, reqHeader, client, arch, callers, server, uri, i,
                  ctxDone, resp, respErr, respBody, ret, sends, acquired, slept,
                  allTransport, firstErr, lastErr, openBodies, tokens, burst,
                  windowExcess >>

\* ZonesService.Delete returns after its Call
DeleteReturn(c) ==
  /\ op[c] = "Delete"
  /\ pc[c] = "done"
  /\ pc' = [pc EXCEPT ![c] = "returned"]
  /\ fret' = [fret EXCEPT ![c] = ZonesDelete(ret[c].body, ret[c].err)]
  /\ UNCHANGED << setup, facadeCtx, readerPos, sentBodies, reqHeader, client, arch, callers, server, uri, i,
                  ctxDone, resp, respErr, respBody, ret, sends, acquired, slept,
                  allTransport, firstErr, lastErr, openBodies, tokens, burst,
                  windowExcess >>

\* ZonesService.Get or Delete with an identifier isValidZoneIdentifier
\* rejects: the method returns before any Call
InvalidZoneReturn(c) ==
  /\ op[c] \in {"Get", "Delete"}
  /\ pc[c] = "idle"
  /\ ~isValidZoneIdentifier(zoneID[c])
  /\ pc' = [pc EXCEPT ![c] = "returned"]
  /\ fret' = [fret EXCEPT ![c] = FRet({}, ErrInvalidZoneIdentifier)]
  /\ UNCHANGED << setup, facadeCtx, readerPos, sentBodies, reqHeader, client, arch, callers, server, uri, i,
                  ctxDone, resp, respErr, respBody, ret, sends, acquired, slept,
                  allTransport, firstErr, lastErr, openBodies, tokens, burst,
                  windowExcess >>

\* the caller cancels the context it gave to the ZonesService method; the
\* method hands context.Background() to Client.Call, so the call's own
\* context stays live
CancelFacade(c) ==
  /\ op[c] \in FacadeOps
  /\ pc[c] \in {"idle", "backoff", "wait", "inflight"}
  /\ facadeCtx[c] = "live"
  /\ facadeCtx' = [facadeCtx EXCEPT ![c] = pc[c]]
  /\ UNCHANGED << setup, readerPos, sentBodies, fret, reqHeader, client, arch, callers, server, uri, pc, i,
                  ctxDone, resp, respErr, respBody, ret, sends, acquired, slept,
                  allTransport, firstErr, lastErr, openBodies, tokens, burst,
                  windowExcess >>

\* a server of zones: transport failures, one zone, the listing, 403, 429
FacadeOutcomes ==
  { [err |-> ErrTransport("transport"), resp |-> NoResp],
    [err |-> Nil,
     resp |-> [status |-> 200, body |-> EnvZone, readErr |-> FALSE, ray |-> ""]],
    [err |-> Nil,
     resp |-> [status |-> 200, body |-> EnvZones, readErr |-> FALSE, ray |-> ""]],
    [err |-> Nil,
     resp |-> [status |-> 403, body |-> EnvErr, readErr |-> FALSE, ray |-> ""]],
    [err |-> Nil,
     resp |-> [status |-> 429, body |-> EnvErr, readErr |-> FALSE, ray |-> ""]] }

\* one call through Client.Call or through ZonesService.Get, List or Delete
\* on a client with a token or without credentials
InitFacade ==
  /\ client \in { cl \in Clients :
                    /\ cl.Key = "" /\ cl.Email = "" /\ cl.UserServiceKey = ""
                    /\ cl.RetryPolicy.MinRetryDelay = cl.RetryPolicy.MaxRetryDelay }
  /\ Assembled
  /\ arch = "amd64"
  /\ callers = {1}
  /\ server = FacadeOutcomes
  /\ headers = [c \in Calls |-> EmptyHeader]
  /\ op \in [Calls -> {"Call"} \cup FacadeOps]
  /\ \A c \in Calls \ callers : op[c] = "Call"
  /\ zoneID \in [Calls -> {"", ValidZoneID, InvalidZoneID}]
  /\ \A c \in Calls : zoneID[c] = "" <=> op[c] \in {"Call", "List"}
  /\ \A c \in Calls \ callers : zoneID[c] = ""
  /\ uri = [c \in Calls |-> IF zoneID[c] = "" THEN "/zones"
                             ELSE "/zones/" \o zoneID[c]]
  /\ totalPages = 1
  /\ payload = [c \in Calls |-> NoPayload]
  /\ burst = DefaultBurst
  /\ tokens = burst
  /\ InitLocals

NextFacade ==
  \/ Next
  \/ \E c \in callers : ListReturn(c)
  \/ \E c \in callers : GetReturn(c)
  \/ \E c \in callers : DeleteReturn(c)
  \/ \E c \in callers : InvalidZoneReturn(c)
  \/ \E c \in callers : CancelFacade(c)

SpecFacade == InitFacade /\ [][NextFacade]_vars

\* one Call with any payload on a client with a token
InitPayload ==
  /\ client \in { cl \in Clients :
                    /\ cl.Key = "" /\ cl.Email = "" /\ cl.UserServiceKey = ""
                    /\ cl.Token # ""
                    /\ cl.RetryPolicy.MinRetryDelay = cl.RetryPolicy.MaxRetryDelay }
  /\ Assembled
  /\ arch = "amd64"
  /\ callers = {1}
  /\ server = FewOutcomes
  /\ uri = [c \in Calls |-> "/zones"]
  /\ op = [c \in Calls |-> "Call"]
  /\ headers = [c \in Calls |-> EmptyHeader]
  /\ totalPages = 1
  /\ zoneID = [c \in Calls |-> ""]
  /\ payload \in [Calls -> Payloads]
  /\ \A c \in Calls \ callers : payload[c] = NoPayload
  /\ burst = DefaultBurst
  /\ tokens = burst
  /\ InitLocals

SpecPayload == InitPayload /\ [][Next]_vars

\* the retry policies a caller may give to New: MaxRetries negative, left at
\* zero, or positive
GivenPolicies ==
  { [MaxRetries |-> n, MinRetryDelay |-> 1, MaxRetryDelay |-> 1] :
      n \in {-1, 0, 1} }

\* one Call on a client built by New of the APIClient revision from a token
\* and a retry policy
InitPolicy ==
  /\ ctor = "NewAPIClient"
  /\ globals = NoGlobals
  /\ \E pol \in GivenPolicies :
        params = [Inject([Key |-> "", Email |-> "", Token |-> "token",
                          UserServiceKey |-> ""], {})
                    EXCEPT !.RetryPolicy = pol]
  /\ newErr = Construct(ctor, params, globals).err
  /\ client = Construct(ctor, params, globals).client
  /\ arch = "amd64"
  /\ callers = {1}
  /\ server = FewOutcomes
  /\ uri = [c \in Calls |-> "/zones"]
  /\ burst = LimiterBurst(client.RateLimiter)
  /\ tokens = burst
  /\ InitCalls

SpecPolicy == InitPolicy /\ [][Next]_vars

\* the default headers a client may be given, and the extra headers a call
\* may pass
DefaultHeaderChoices ==
  { EmptyHeader,
    "Content-Type" :> "text/plain",
    "X-Trace" :> "d",
    "User-Agent" :> "d-agent",
    ("Content-Type" :> "text/plain") @@ ("X-Trace" :> "d") }

ExtraHeaderChoices ==
  { EmptyHeader,
    "Content-Type" :> "application/xml",
    "Content-Type" :> "",
    "X-Trace" :> "x",
    "User-Agent" :> "x-agent",
    "Authorization" :> "x-auth",
    ("Content-Type" :> "application/xml") @@ ("X-Trace" :> "x") }

\* one CallWithHeaders on a client built by New of the APIClient revision
\* from any credentials, default headers and user agent
InitRequest ==
  /\ ctor = "NewAPIClient"
  /\ globals = NoGlobals
  /\ \E cr \in AllCredentials, ua \in {"", CustomUserAgent},
        h \in DefaultHeaderChoices :
        params = [Inject(cr, {"RetryPolicy"}) EXCEPT
                    !.UserAgent = ua, !.Headers = h]
  /\ newErr = Construct(ctor, params, globals).err
  /\ client = Construct(ctor, params, globals).client
  /\ arch = "amd64"
  /\ callers = {1}
  /\ server = FewOutcomes
  /\ uri = [c \in Calls |-> "/zones"]
  /\ op = [c \in Calls |-> IF c \in callers THEN "CallWithHeaders" ELSE "Call"]
  /\ headers \in [Calls -> ExtraHeaderChoices]
  /\ \A c \in Calls \ callers : headers[c] = EmptyHeader
  /\ totalPages = 1
  /\ zoneID = [c \in Calls |-> ""]
  /\ payload = [c \in Calls |-> NoPayload]
  /\ burst = LimiterBurst(client.RateLimiter)
  /\ tokens = burst
  /\ InitLocals

SpecRequest == InitRequest /\ [][Next]_vars

----------------------------------------------------------------------------
(* Properties *)

Min(a, b) == IF a <= b THEN a ELSE b

\* C1: with MaxRetries = n >= 0, a call whose every send fails at transport
\* level and whose context is never cancelled makes exactly n+1 sends and then
\* returns the transport error; while it runs it never exceeds n+1 sends.
C1_ExactlyNPlusOneAttempts ==
  \A c \in callers :
    (allTransport[c] /\ ~ctxDone[c] /\ client.RetryPolicy.MaxRetries >= 0)
      => /\ sends[c] <= client.RetryPolicy.MaxRetries + 1
         /\ pc[c] = "done" =>
              /\ sends[c] = client.RetryPolicy.MaxRetries + 1
              /\ ret[c] = Ret("", ErrTransport("transport"))

C1_Witness ==
  \E c \in callers :
    /\ pc[c] = "done" /\ allTransport[c] /\ ~ctxDone[c]
    /\ client.RetryPolicy.MaxRetries >= 2
    /\ sends[c] = client.RetryPolicy.MaxRetries + 1

\* C2: the delay slept before retry k (k = 1..MaxRetries) is
\* min(MaxRetryDelay, MinRetryDelay * 2^(k-1)); nothing is slept before
\* attempt 0; the delays never decrease and never exceed MaxRetryDelay.
C2_BackoffDelays ==
  \A c \in callers :
    LET p == client.RetryPolicy IN
    /\ i[c] = 0 => slept[c] = <<>>
    /\ Len(slept[c]) <= p.MaxRetries
    /\ \A k \in 1..Len(slept[c]) :
         /\ slept[c][k] = Min(p.MaxRetryDelay, p.MinRetryDelay * Pow2(k - 1))
         /\ slept[c][k] <= p.MaxRetryDelay
         /\ k > 1 => slept[c][k - 1] <= slept[c][k]

\* C3: a call whose context is cancelled while it is in the backoff sleep can
\* return at once, and its next step is that return: the error is "operation
\* aborted" wrapping the context's error, no token is acquired, nothing sent.
C3_CancelDuringBackoff ==
  /\ [](\A c \in callers :
          (pc[c] = "backoff" /\ ctxDone[c]) => ENABLED BackoffAbort(c))
  /\ [][\A c \in callers :
          (pc[c] = "backoff" /\ ctxDone[c] /\ pc'[c] # "backoff")
            => /\ pc'[c] = "done"
               /\ ret'[c].err.kind = "operation aborted during backoff"
               /\ ret'[c].err.cause = CtxErr
               /\ ret'[c].body = ""
               /\ acquired'[c] = acquired[c]
               /\ sends'[c] = sends[c]
               /\ tokens' = tokens]_vars

C3_Witness ==
  \E c \in callers :
    /\ pc[c] = "done" /\ ctxDone[c]
    /\ ret[c] = Ret("", ErrAborted(CtxErr))
    /\ Len(slept[c]) = i[c] /\ i[c] >= 1

\* C4: once the context of a call is cancelled, the call starts no further
\* HTTP send, what it returns is an error, and it does return.
C4_CancelAbortsWholeCall ==
  /\ [][\A c \in callers : ctxDone[c] => sends'[c] = sends[c]]_vars
  /\ [](\A c \in callers :
          (pc[c] = "done" /\ ctxDone[c]) => ret[c].err # Nil /\ ret[c].body = "")
  /\ \A c \in Calls :
        (c \in callers /\ ctxDone[c] /\ pc[c] # "idle") ~> (pc[c] = "done")

C4_Witness ==
  \E c \in callers :
    /\ pc[c] = "done" /\ ctxDone[c]
    /\ sends[c] >= 1 /\ sends[c] <= client.RetryPolicy.MaxRetries
    /\ ret[c].err # Nil

\* C5 (as stated): an attempt whose response has status < 400 ends the call,
\* which returns the response body unchanged and a nil error.
C5_Original ==
  \A c \in callers :
    (resp[c] # NoResp /\ resp[c].status < StatusBadRequest)
      => pc[c] = "done" /\ ret[c] = Ret(resp[c].body, Nil)

\* C5 (amended): an attempt whose response has status < 400 ends the call; if
\* the body is read without error the call returns the body unchanged and a
\* nil error, and if reading the body fails it returns the read error.
C5_SuccessReturnsBody ==
  \A c \in callers :
    (resp[c] # NoResp /\ resp[c].status < StatusBadRequest)
      => /\ pc[c] = "done"
         /\ ~resp[c].readErr => ret[c] = Ret(resp[c].body, Nil)
         /\ resp[c].readErr => ret[c] = Ret("", ErrReadBody)

C5_Witness ==
  \E c \in callers :
    /\ pc[c] = "done" /\ resp[c].status = 200 /\ ~resp[c].readErr
    /\ ret[c] = Ret(EnvOK, Nil)

\* C6: a 4xx response other than 429 whose body is a valid envelope, on a path
\* other than the expression-validation endpoint, ends the call at that
\* attempt with an APIRequestError carrying the status, the envelope's errors
\* in order and the cf-ray id.
C6_ApiErrorNotRetried ==
  \A c \in callers :
    ( /\ resp[c].status >= 400 /\ resp[c].status < 500
      /\ resp[c].status # 429
      /\ resp[c].body \in {EnvOK, EnvErr}
      /\ ~HasValidateSuffix(uri[c]) )
      => /\ pc[c] = "done"
         /\ sends[c] = i[c] + 1
         /\ ret[c].body = ""
         /\ ret[c].err.kind = "APIRequestError"
         /\ ret[c].err.StatusCode = resp[c].status
         /\ ret[c].err.RayID = resp[c].ray
         /\ ret[c].err.Errors =
              IF resp[c].body = EnvErr
                THEN << [Code |-> 9109, Message |-> "Invalid access"],
                        [Code |-> 1000, Message |-> "nope"] >>
                ELSE <<>>

C6_Witness ==
  \E c \in callers :
    /\ pc[c] = "done" /\ resp[c].status = 403 /\ resp[c].body = EnvErr
    /\ resp[c].ray = "ray-1" /\ ~HasValidateSuffix(uri[c])
    /\ ret[c].err.kind = "APIRequestError" /\ sends[c] = 1

\* C7 (as stated): when attempt 0 fails retryably and attempt 1 gets status
\* 200, the call returns the 200 body with no error, having made two sends
\* and logged one "sleeping" line.
C7_Original ==
  \A c \in callers :
    (pc[c] = "done" /\ i[c] = 1 /\ resp[c].status = 200)
      => /\ ret[c] = Ret(resp[c].body, Nil)
         /\ sends[c] = 2
         /\ Len(slept[c]) = 1

\* C7 (amended): when attempt 0 fails retryably and attempt 1 gets status 200
\* with a body that is read without error, the call returns that body with
\* no error, having made two sends and logged one "sleeping" line.
C7_RetryThenSuccess ==
  \A c \in callers :
    (pc[c] = "done" /\ i[c] = 1 /\ resp[c].status = 200 /\ ~resp[c].readErr)
      => /\ ret[c] = Ret(resp[c].body, Nil)
         /\ sends[c] = 2
         /\ Len(slept[c]) = 1

C7_Witness ==
  \E c \in callers :
    /\ pc[c] = "done" /\ i[c] = 1 /\ resp[c].status = 200
    /\ ret[c] = Ret(EnvOK, Nil) /\ sends[c] = 2 /\ Len(slept[c]) = 1

C9_NoCredentialsNotRetried ==
  NoCredentials(client) =>
    \A c \in callers :
      /\ acquired[c] <= 1
      /\ slept[c] = <<>>
      /\ acquired[c] = 1 => pc[c] = "done"

\* C10: over every time window the sends started by the calls sharing the
\* limiter stay within what the bucket grants in that window (at most burst
\* plus the refills of the window), every send holds a token of its own, and
\* the bucket never grants a token it does not have.
C10_RateBound ==
  /\ tokens >= 0 /\ tokens <= burst
  /\ windowExcess <= burst - tokens
  /\ \A c \in callers : sends[c] <= acquired[c]

C10_Witness ==
  /\ tokens = 0
  /\ windowExcess = burst
  /\ burst >= 2
  /\ \E c, d \in callers : c # d /\ pc[c] = "inflight" /\ pc[d] = "wait"


\* C11: when the retry loop has used all MaxRetries+1 attempts and the last
\* attempt failed at transport level, the call returns the error of that last
\* attempt itself: not the error of an earlier attempt, and not wrapped.
C11_LastErrorVerbatim ==
  \A c \in callers :
    ( /\ pc[c] = "done"
      /\ i[c] = client.RetryPolicy.MaxRetries + 1
      /\ lastErr[c].kind = "HTTP request failed" )
      => ret[c] = Ret("", lastErr[c])

C11_Witness ==
  \E c \in callers :
    /\ pc[c] = "done" /\ ~ctxDone[c]
    /\ i[c] = client.RetryPolicy.MaxRetries + 1
    /\ firstErr[c] = ErrTransport("connection refused")
    /\ lastErr[c] = ErrTransport("i/o timeout")
    /\ ret[c] = Ret("", ErrTransport("i/o timeout"))

\* C12: for a final response with status >= 400 whose body was read, the
\* decoder applies, in this order: on the expression-validation path the
\* error is the raw body text; else for a status > 500 it is the opaque
\* service failure carrying the status; else the body is parsed as an
\* envelope, giving the decode error or an APIRequestError with status,
\* errors and trace id.  A call that ends on a status >= 400 never returns a
\* nil error.
C12_DecoderRules ==
  \A c \in callers :
    (pc[c] = "done" /\ resp[c] # NoResp /\ resp[c].status >= 400)
      => /\ ret[c].body = ""
         /\ ret[c].err # Nil
         /\ ( /\ respErr[c] = Nil /\ ~resp[c].readErr
              /\ (resp[c].status = 429 \/ resp[c].status >= 500)
                    => i[c] = client.RetryPolicy.MaxRetries + 1 )
              => ret[c].err =
                   IF uri[c] = "/filters/validate-expr"
                     THEN MkErr("raw body", "", 0, <<>>, "", resp[c].body)
                   ELSE IF resp[c].status > 500
                     THEN MkErr("service failure", "", resp[c].status, <<>>, "", "")
                   ELSE IF resp[c].body = Garbage
                     THEN errUnmarshalErrorBody
                   ELSE MkErr("APIRequestError", "", resp[c].status,
                              Unmarshal(resp[c].body).Errors, resp[c].ray, "")

C12_Witness ==
  \E c \in callers :
    /\ pc[c] = "done" /\ respErr[c] = Nil
    /\ resp[c].status = 503 /\ resp[c].body = EnvErr /\ ~resp[c].readErr
    /\ uri[c] = "/filters/validate-expr"
    /\ i[c] = client.RetryPolicy.MaxRetries + 1
    /\ ret[c] = Ret("", ErrRawBody(EnvErr))

\* C13: New merges the caller's ClientParams with the defaults: each of
\* BaseURL, UserAgent, HTTPClient, RateLimiter, RetryPolicy, Headers and
\* Logger holds the caller's value when one was supplied and the default
\* otherwise; a call on the client then runs on the injected rate limiter
\* and never meets an unset field.
C13_NewMerges ==
  newErr = Nil =>
    /\ client.BaseURL =
         IF params.BaseURL # NilVal THEN params.BaseURL ELSE DefaultBaseURL
    /\ client.UserAgent =
         IF params.UserAgent # "" THEN params.UserAgent ELSE DefaultUserAgent
    /\ client.HTTPClient =
         IF params.HTTPClient # NilVal THEN params.HTTPClient ELSE DefaultHTTPClient
    /\ client.RateLimiter =
         IF params.RateLimiter # NilVal THEN params.RateLimiter ELSE DefaultLimiter
    /\ client.RetryPolicy =
         IF params.RetryPolicy # ZeroPolicy THEN params.RetryPolicy
         ELSE DefaultRetryPolicy
    /\ client.Headers = params.Headers
    /\ client.Logger =
         IF params.Logger # NilVal THEN params.Logger ELSE DefaultLogger
    /\ burst = IF params.RateLimiter = CustomLimiter THEN MaxBurst ELSE DefaultBurst
    /\ \A c \in callers : pc[c] # "panic"

\* C15: a client constructed while a package-level credential is non-empty
\* holds the package-level value of that credential, whatever its
\* ClientParams said: Key together with Email, Token, UserServiceKey.
C15_GlobalsOverride ==
  newErr = Nil =>
    /\ globals.Key # "" =>
         client.Key = globals.Key /\ client.Email = globals.Email
    /\ globals.Token # "" => client.Token = globals.Token
    /\ globals.UserServiceKey # "" =>
         client.UserServiceKey = globals.UserServiceKey

C15_Witness ==
  /\ ctor = "NewAPIClient"
  /\ params.Token = "token" /\ globals.Token = "g-token"
  /\ params.Key = "key" /\ params.Email = "email"
  /\ globals.Key = "g-key" /\ globals.Email = ""
  /\ client.Token = "g-token" /\ client.Key = "g-key" /\ client.Email = ""
  /\ \E c \in callers : pc[c] = "inflight"

\* C17: New given both a Key and a Token returns an error and no client, so
\* no client it returns holds both, and no call is ever made on one.
C17_KeyTokenExclusive ==
  /\ (params.Key # "" /\ params.Token # "") => (newErr # Nil /\ callers = {})
  /\ newErr = Nil => ~(client.Key # "" /\ client.Token # "")

\* C14: ZonesService.List paginates: when the API reports more than one
\* result page, List requests every page and returns the zones of all pages.
C14_ListPaginates ==
  \A c \in callers :
    (op[c] = "List" /\ pc[c] = "returned" /\ ret[c] = Ret(EnvZones, Nil))
      => /\ fret[c] = FRet(UNION {PageZones(p) : p \in 1..totalPages}, Nil)
         /\ sends[c] >= totalPages

\* C16: a request carries Authorization: Bearer <token> when a token is
\* configured; else, when key and email are configured, X-Auth-Key and
\* X-Auth-Email; the service-key header whenever a service key is
\* configured; never both the bearer Authorization and the key/email headers.
C16_CredentialPrecedence ==
  \A c \in callers :
    sends[c] >= 1 =>
      LET h == reqHeader[c]
          bearer == HeaderGet(h, "Authorization") = "Bearer " \o client.Token
          keyed == "X-Auth-Key" \in DOMAIN h \/ "X-Auth-Email" \in DOMAIN h
      IN  /\ client.Token # "" => bearer /\ ~keyed
          /\ (client.Token = "" /\ client.Key # "" /\ client.Email # "")
               => /\ HeaderGet(h, "X-Auth-Key") = client.Key
                  /\ HeaderGet(h, "X-Auth-Email") = client.Email
          /\ client.UserServiceKey # ""
               => HeaderGet(h, "X-Auth-User-Service-Key") = client.UserServiceKey
          /\ client.UserServiceKey = ""
               => "X-Auth-User-Service-Key" \notin DOMAIN h

\* C18 (as stated): the header of every request is the client's default
\* headers with the call's extra headers merged on top, the extra value
\* being sent for a key present in both; Content-Type is application/json
\* exactly when the merged headers carry no Content-Type; the client's
\* default headers stay as they were.
C18_Original ==
  \A c \in callers :
    sends[c] >= 1 =>
      LET h == reqHeader[c]
          def == params.Headers
          extra == headers[c]
          merged == DOMAIN def \cup DOMAIN extra
      IN  /\ \A k \in merged :
               h[k] = IF k \in DOMAIN extra THEN extra[k] ELSE def[k]
          /\ h["Content-Type"] = "application/json"
               <=> "Content-Type" \notin merged
          /\ client.Headers = def

\* C18 (amended): as stated, for every key but those the client sets itself
\* after the merge (the headers of its configured credentials, and
\* User-Agent when it has a user agent), which carry the client's values;
\* and Content-Type is application/json exactly when the merged headers
\* carry no Content-Type or an empty one.
C18_HeaderMerge ==
  \A c \in callers :
    sends[c] >= 1 =>
      LET h == reqHeader[c]
          def == params.Headers
          extra == headers[c]
          merged == DOMAIN def \cup DOMAIN extra
          own == (IF client.Key # "" THEN {"X-Auth-Key", "X-Auth-Email"} ELSE {})
                   \cup (IF client.UserServiceKey # ""
                           THEN {"X-Auth-User-Service-Key"} ELSE {})
                   \cup (IF client.Token # "" THEN {"Authorization"} ELSE {})
                   \cup (IF client.UserAgent # "" THEN {"User-Agent"} ELSE {})
          val(k) == IF k \in DOMAIN extra THEN extra[k] ELSE def[k]
      IN  /\ DOMAIN h = merged \cup own \cup {"Content-Type"}
          /\ \A k \in merged \ (own \cup {"Content-Type"}) : h[k] = val(k)
          /\ "User-Agent" \in own => h["User-Agent"] = client.UserAgent
          /\ IF "Content-Type" \in merged /\ val("Content-Type") # ""
               THEN h["Content-Type"] = val("Content-Type")
               ELSE h["Content-Type"] = "application/json"
          /\ client.Headers = def

C18_Witness ==
  \E c \in callers :
    /\ pc[c] = "inflight"
    /\ params.Headers = ("Content-Type" :> "text/plain") @@ ("X-Trace" :> "d")
    /\ headers[c] = ("Content-Type" :> "application/xml") @@ ("X-Trace" :> "x")
    /\ reqHeader[c]["X-Trace"] = "x"
    /\ reqHeader[c]["Content-Type"] = "application/xml"

\* C19: when RateLimiter.Wait fails in an attempt, the call returns at once
\* the rate-limit error wrapping the limiter's error; that attempt sends no
\* request and takes no token, and the returned call makes no further
\* attempt.
C19_WaitFailureAborts ==
  [][\A c \in callers :
       /\ (/\ pc[c] = "wait"
           /\ ctxDone[c]
           /\ << pc[c], i[c], ret[c], sends[c], acquired[c] >>
                # << pc'[c], i'[c], ret'[c], sends'[c], acquired'[c] >>)
            => /\ pc'[c] = "done"
               /\ ret'[c] = Ret("", ErrRateLimit(CtxErr))
               /\ i'[c] = i[c]
               /\ sends'[c] = sends[c]
               /\ acquired'[c] = acquired[c]
       /\ (pc[c] = "done" /\ ret[c] = Ret("", ErrRateLimit(CtxErr)))
            => /\ pc'[c] = "done"
               /\ ret'[c] = ret[c]
               /\ i'[c] = i[c]
               /\ sends'[c] = sends[c]
               /\ acquired'[c] = acquired[c]]_vars

C19_Witness ==
  \E c \in callers :
    /\ pc[c] = "done"
    /\ ret[c] = Ret("", ErrRateLimit(CtxErr))
    /\ i[c] >= 1
    /\ sends[c] = i[c]
    /\ i[c] < client.RetryPolicy.MaxRetries

\* C20: every response received during a call has had its body closed exactly
\* once when makeRequest returns, whatever the exit path, and already when
\* the loop goes on to the next attempt: the count of received bodies minus
\* the calls of Body.Close is never positive (a body left open) and never
\* negative (a body closed twice).
C20_BodiesClosedOnce ==
  \A c \in callers :
    /\ openBodies[c] >= 0
    /\ pc[c] \in {"backoff", "wait", "inflight", "done"} => openBodies[c] = 0

\* a 429/5xx response on attempt 0, then the call is aborted by cancellation
C20_Witness ==
  \E c \in callers :
    /\ pc[c] = "done"
    /\ i[c] >= 1
    /\ sends[c] >= 1
    /\ firstErr[c] = Nil
    /\ ret[c].err \in {ErrAborted(CtxErr), ErrRateLimit(CtxErr)}

\* C21: within a call the steps of an attempt come in the order backoff sleep
\* (only before an attempt after the first), token acquisition, send,
\* classification: a send happens only in the step that acquires a token for
\* the same attempt, so sends never exceed the tokens acquired; the attempt
\* index advances by one and only when the outcome of the current attempt is
\* classified.
C21_AttemptOrder ==
  /\ [](\A c \in callers :
          /\ sends[c] <= acquired[c]
          /\ acquired[c] <= i[c] + 1
          /\ pc[c] = "inflight" => acquired[c] = i[c] + 1
          /\ pc[c] = "backoff" => i[c] > 0)
  /\ [][\A c \in callers :
          /\ pc'[c] # pc[c] =>
               \/ pc[c] = "idle" /\ pc'[c] \in {"wait", "done", "panic"}
               \/ pc[c] = "backoff" /\ pc'[c] \in {"wait", "done"}
               \/ pc[c] = "wait" /\ pc'[c] \in {"inflight", "done", "panic"}
               \/ pc[c] = "wait" /\ pc'[c] = "backoff" /\ i'[c] = i[c] + 1
               \/ pc[c] = "inflight"
                    /\ pc'[c] \in {"backoff", "wait", "done", "panic"}
          /\ sends'[c] # sends[c] =>
               /\ pc[c] = "wait" /\ pc'[c] = "inflight"
               /\ sends'[c] = sends[c] + 1
               /\ acquired'[c] = acquired[c] + 1
               /\ i'[c] = i[c]
          /\ acquired'[c] # acquired[c] =>
               pc[c] = "wait" /\ acquired'[c] = acquired[c] + 1
          /\ i'[c] # i[c] =>
               /\ i'[c] = i[c] + 1
               /\ \/ pc[c] = "inflight"
                  \/ /\ pc[c] = "wait"
                     /\ NoCredentials(client)
                     /\ acquired'[c] = acquired[c] + 1
               /\ sends'[c] = sends[c]]_vars

C21_Witness ==
  \E c \in callers :
    /\ pc[c] = "done"
    /\ i[c] = 2
    /\ sends[c] = 3
    /\ acquired[c] = 3
    /\ Len(slept[c]) = 2

\* C22: a call on a client holding no token, no key and no service key
\* never hands a request to the HTTP transport, whatever its Email; when
\* the context is not cancelled the call ends with the no-credentials error.
C22_EmailOnlyNoTransport ==
  \A c \in callers :
    (client.Token = "" /\ client.Key = "" /\ client.UserServiceKey = "") =>
      /\ sends[c] = 0
      /\ pc[c] # "inflight"
      /\ (pc[c] = "done" /\ ~ctxDone[c]) => ret[c].err = ErrNoCredentials

\* C23: when the Call under ZonesService.Get, List or Delete returns an
\* error, the method returns that error or one wrapping it, never nil and
\* never the JSON-unmarshal error.
C23_FacadePropagates ==
  \A c \in callers :
    (op[c] \in FacadeOps /\ pc[c] = "returned" /\ ret[c].err # Nil) =>
      /\ fret[c].err # Nil
      /\ fret[c].err # ErrUnmarshalZone
      /\ fret[c].err = ret[c].err \/ fret[c].err.cause = ret[c].err.kind

\* C24: once the context given to ZonesService.Get, List or Delete is
\* cancelled while the call is in a backoff sleep, a rate-limit wait or a
\* send, the call sends nothing more and the method returns an error.
C24_FacadeContextGoverns ==
  /\ [](\A c \in callers :
          (/\ op[c] \in FacadeOps
           /\ pc[c] = "returned"
           /\ facadeCtx[c] \in {"backoff", "wait", "inflight"})
            => fret[c].err # Nil)
  /\ [][\A c \in callers :
          (op[c] \in FacadeOps /\ facadeCtx[c] \in {"backoff", "wait", "inflight"})
            => sends'[c] = sends[c]]_vars

\* C25: for a payload given as bytes or as a value to be JSON-encoded, every
\* request of the call, the retries included, carries the same complete
\* body: the payload's bytes, or its JSON encoding.
C25_PayloadResent ==
  \A c \in callers :
    payload[c].kind \in {"bytes", "struct"} =>
      \A k \in 1..Len(sentBodies[c]) :
        sentBodies[c][k] = ReqBodyBytes(payload[c])

\* C26: whenever makeRequest leaves the retry loop with a nil respErr, resp
\* is the response of the last attempt and not nil, for every retry policy
\* the client can hold, a negative MaxRetries included: the status check
\* after the loop never dereferences a nil response.
C26_RespNonNilAfterLoop ==
  \A c \in callers :
    (/\ pc[c] \in {"done", "panic"}
     /\ ~LoopCondition(i[c], client.RetryPolicy)
     /\ respErr[c] = Nil)
      => resp[c] # NoResp /\ pc[c] # "panic"

====
